---- MODULE Spec2Model ----
(***************************************************************************)
(* Model of ExceptionHandlerDecorator.py: the ExceptionHandler factory,    *)
(* the wrapper each decorator puts around a callable, chains of nested     *)
(* wrappers, and the div_array example.                                    *)
(*                                                                         *)
(* A call of the outermost wrapper is synchronous and single-threaded, so  *)
(* it is one action; the file operations it performs are kept, in order,   *)
(* in the variable events.                                                 *)
(***************************************************************************)
EXTENDS Integers, Sequences, FiniteSets

\* Largest number of decorators stacked on one callable.
MaxDepth == 2

----------------------------------------------------------------------------
\* Python values

NoneV == [kind |-> "None"]
Num(n, d) == [kind |-> "num", n |-> n, d |-> d]
Str(s) == [kind |-> "str", s |-> s]
List(items) == [kind |-> "list", items |-> items]

\* Outcome of a call: a returned value or a raised exception.  An exception
\* is the sequence of its type name followed by the types of its __context__
\* chain (the exceptions that were being handled when it was raised).
Return(v) == [tag |-> "return", val |-> v]
Raise(e) == [tag |-> "raise", exc |-> e]

----------------------------------------------------------------------------
\* Exception classes (the part of the builtin hierarchy the program meets)

Base(t) ==
  CASE t = "Exception" -> "BaseException"
    [] t = "ArithmeticError" -> "Exception"
    [] t = "ZeroDivisionError" -> "ArithmeticError"
    [] t = "TypeError" -> "Exception"
    [] t = "OSError" -> "Exception"
    [] t = "KeyboardInterrupt" -> "BaseException"
    [] OTHER -> "BaseException"

RECURSIVE IsSubclass(_, _)
IsSubclass(t, c) ==
  IF t = c THEN TRUE
  ELSE IF t = "BaseException" THEN FALSE
  ELSE IsSubclass(Base(t), c)

\* `except exceptions:` with a tuple of classes
ExceptMatches(exc, exceptions) ==
  \E c \in exceptions : IsSubclass(exc[1], c)

----------------------------------------------------------------------------
\* div_array: reduce(lambda x, y: x / y, num_array)

RECURSIVE Gcd(_, _)
Gcd(a, b) == IF b = 0 THEN a ELSE Gcd(b, a % b)

Norm(n, d) == IF n = 0 THEN Num(0, 1) ELSE Num(n \div Gcd(n, d), d \div Gcd(n, d))

\* x / y
TrueDiv(x, y) ==
  IF x.kind # "num" \/ y.kind # "num" THEN Raise(<<"TypeError">>)
  ELSE IF y.n = 0 THEN Raise(<<"ZeroDivisionError">>)
  ELSE Return(Norm(x.n * y.d, x.d * y.n))

IsIterable(v) == v.kind \in {"list", "str"}

\* iterating a str yields its characters (the strings here have one)
Iter(v) == IF v.kind = "list" THEN v.items ELSE <<v>>

RECURSIVE ReduceFrom(_, _, _)
ReduceFrom(acc, items, i) ==
  IF i > Len(items) THEN Return(acc)
  ELSE LET r == TrueDiv(acc, items[i])
       IN IF r.tag = "raise" THEN r ELSE ReduceFrom(r.val, items, i + 1)

\* Variant: a value that is not iterable is taken as a one-element array.
ReduceScalar(v) ==
  IF ~IsIterable(v) THEN Return(v)
  ELSE IF Len(Iter(v)) = 0 THEN Raise(<<"TypeError">>)
  ELSE ReduceFrom(Iter(v)[1], Iter(v), 2)

\* functools.reduce(lambda x, y: x / y, v) without an initial value
Reduce(v) ==
  IF ~IsIterable(v) THEN Raise(<<"TypeError">>)
  ELSE IF Len(Iter(v)) = 0 THEN Raise(<<"TypeError">>)
  ELSE ReduceFrom(Iter(v)[1], Iter(v), 2)

div_array(num_array) == Reduce(num_array)

----------------------------------------------------------------------------
\* The file system seen by open(log_file, "w")

DefaultLog == "default_error_log.txt"
TypeErrorLog == "typeerror.txt"
ZeroDivLog == "zerodivisionerror.txt"
LogFiles == {DefaultLog, TypeErrorLog, ZeroDivLog}

\* what the environment does with a file: "ok", open() fails, or open()
\* succeeds and writing the trace fails
FileModes == {"ok", "openfail", "writefail"}

\* content left in the files by earlier runs: a file is a sequence of traces
PriorContent == <<<<"prior">>>>

\* traceback.print_exc(): the text printed for the exception being handled,
\* one entry per exception of the chain, the oldest context first and the
\* exception itself last
FormatExc(exc) == [k \in 1..Len(exc) |-> exc[Len(exc) + 1 - k]]

Event(layer, op, file, ok) == [layer |-> layer, op |-> op, file |-> file, ok |-> ok]

\* Variant: the file is opened with "a", so a trace is added to what the
\* file already holds.
WithOpenWriteAppend(layer, log_file, exc, io, mode) ==
  LET file == log_file.s IN
  IF mode[file] = "openfail"
  THEN [failed |-> TRUE, fs |-> io.fs, handles |-> io.handles,
        events |-> io.events \o <<Event(layer, "open", file, FALSE)>>]
  ELSE IF mode[file] = "writefail"
  THEN [failed |-> TRUE, fs |-> io.fs, handles |-> io.handles,
        events |-> io.events \o <<Event(layer, "open", file, TRUE),
                                  Event(layer, "write", file, FALSE),
                                  Event(layer, "close", file, TRUE)>>]
  ELSE [failed |-> FALSE,
        fs |-> [io.fs EXCEPT ![file] = Append(@, FormatExc(exc))],
        handles |-> io.handles,
        events |-> io.events \o <<Event(layer, "open", file, TRUE),
                                  Event(layer, "write", file, TRUE),
                                  Event(layer, "close", file, TRUE)>>]

\* Variant: f = open(...); print_exc(file=f); f.close() without a with
\* block, so a failed write leaves the file open.
WithOpenWriteNoClose(layer, log_file, exc, io, mode) ==
  LET file == log_file.s IN
  IF mode[file] = "openfail"
  THEN [failed |-> TRUE, fs |-> io.fs, handles |-> io.handles,
        events |-> io.events \o <<Event(layer, "open", file, FALSE)>>]
  ELSE IF mode[file] = "writefail"
  THEN [failed |-> TRUE, fs |-> [io.fs EXCEPT ![file] = <<>>],
        handles |-> io.handles \cup {file},
        events |-> io.events \o <<Event(layer, "open", file, TRUE),
                                  Event(layer, "write", file, FALSE)>>]
  ELSE [failed |-> FALSE, fs |-> [io.fs EXCEPT ![file] = <<FormatExc(exc)>>],
        handles |-> io.handles,
        events |-> io.events \o <<Event(layer, "open", file, TRUE),
                                  Event(layer, "write", file, TRUE),
                                  Event(layer, "close", file, TRUE)>>]

\* with open(log_file, "w") as f: traceback.print_exc(file=f)
\* io is [fs, events, handles]; the result adds failed, TRUE when open() or
\* the write raised OSError.  Opening truncates the file; leaving the with
\* block closes it, also when the body raised.
WithOpenWrite(layer, log_file, exc, io, mode) ==
  LET file == log_file.s IN
  IF mode[file] = "openfail"
  THEN [failed |-> TRUE, fs |-> io.fs, handles |-> io.handles,
        events |-> io.events \o <<Event(layer, "open", file, FALSE)>>]
  ELSE IF mode[file] = "writefail"
  THEN [failed |-> TRUE, fs |-> [io.fs EXCEPT ![file] = <<>>],
        handles |-> io.handles,
        events |-> io.events \o <<Event(layer, "open", file, TRUE),
                                  Event(layer, "write", file, FALSE),
                                  Event(layer, "close", file, TRUE)>>]
  ELSE [failed |-> FALSE, fs |-> [io.fs EXCEPT ![file] = <<FormatExc(exc)>>],
        handles |-> io.handles,
        events |-> io.events \o <<Event(layer, "open", file, TRUE),
                                  Event(layer, "write", file, TRUE),
                                  Event(layer, "close", file, TRUE)>>]

----------------------------------------------------------------------------
\* ExceptionHandler

\* __init__
ExceptionHandlerInit(return_message, log_file) ==
  [return_message |-> return_message, log_file |-> log_file]

\* Variant: `log_file or self.log_file`, `return_message or self.return_message`.
exception_handler_decorator_or(self, exceptions, return_message, log_file) ==
  [exceptions |-> exceptions,
   return_message |-> IF return_message = NoneV \/ return_message = Str("")
                      THEN self.return_message ELSE return_message,
   log_file |-> IF log_file = NoneV \/ log_file = Str("")
                THEN self.log_file ELSE log_file]

\* exception_handler_decorator: the closure variables of the decorator
exception_handler_decorator(self, exceptions, return_message, log_file) ==
  [exceptions |-> exceptions,
   return_message |-> IF return_message = NoneV THEN self.return_message
                      ELSE return_message,
   log_file |-> IF log_file = NoneV THEN self.log_file ELSE log_file]

\* Variant: `func(*args, **kwargs)` without the return in the try block.
wrapperNoReturn(guard, layer, st, mode) ==
  IF st.out.tag = "return" THEN [st EXCEPT !.out = Return(NoneV)]
  ELSE IF ExceptMatches(st.out.exc, guard.exceptions)
  THEN LET w == WithOpenWrite(layer, guard.log_file, st.out.exc, st, mode)
       IN [out |-> IF w.failed THEN Raise(<<"OSError">> \o st.out.exc)
                   ELSE Return(guard.return_message),
           fs |-> w.fs, events |-> w.events, handles |-> w.handles]
  ELSE st

\* Variant: the except block without `return return_message`.
wrapperLogOnly(guard, layer, st, mode) ==
  IF st.out.tag = "return" THEN st
  ELSE IF ExceptMatches(st.out.exc, guard.exceptions)
  THEN LET w == WithOpenWrite(layer, guard.log_file, st.out.exc, st, mode)
       IN [out |-> IF w.failed THEN Raise(<<"OSError">> \o st.out.exc)
                   ELSE Return(NoneV),
           fs |-> w.fs, events |-> w.events, handles |-> w.handles]
  ELSE st

\* Variant: a bare `except:` in place of `except exceptions:`.
wrapperBareExcept(guard, layer, st, mode) ==
  IF st.out.tag = "return" THEN st
  ELSE LET w == WithOpenWrite(layer, guard.log_file, st.out.exc, st, mode)
       IN [out |-> IF w.failed THEN Raise(<<"OSError">> \o st.out.exc)
                   ELSE Return(guard.return_message),
           fs |-> w.fs, events |-> w.events, handles |-> w.handles]

\* Variant: the except block ends in `raise` in place of the return.
wrapperReraise(guard, layer, st, mode) ==
  IF st.out.tag = "return" THEN st
  ELSE IF ExceptMatches(st.out.exc, guard.exceptions)
  THEN LET w == WithOpenWrite(layer, guard.log_file, st.out.exc, st, mode)
       IN [out |-> IF w.failed THEN Raise(<<"OSError">> \o st.out.exc)
                   ELSE st.out,
           fs |-> w.fs, events |-> w.events, handles |-> w.handles]
  ELSE st

\* Variant: the write of the log is itself wrapped in try/except OSError: pass.
wrapperSwallow(guard, layer, st, mode) ==
  IF st.out.tag = "return" THEN st
  ELSE IF ExceptMatches(st.out.exc, guard.exceptions)
  THEN LET w == WithOpenWrite(layer, guard.log_file, st.out.exc, st, mode)
       IN [out |-> Return(guard.return_message),
           fs |-> w.fs, events |-> w.events, handles |-> w.handles]
  ELSE st

\* wrapper(*args, **kwargs) of the guard at the given layer.  st is
\* [out, fs, events, handles] with st.out the outcome of func(*args, **kwargs);
\* the result has the same shape with out the outcome of the wrapper.
wrapper(guard, layer, st, mode) ==
  IF st.out.tag = "return" THEN st
  ELSE IF ExceptMatches(st.out.exc, guard.exceptions)
  THEN LET w == WithOpenWrite(layer, guard.log_file, st.out.exc, st, mode)
       IN [out |-> IF w.failed THEN Raise(<<"OSError">> \o st.out.exc)
                   ELSE Return(guard.return_message),
           fs |-> w.fs, events |-> w.events, handles |-> w.handles]
  ELSE st

\* Variant: the decorators nest the other way round, the last one applied
\* being nearest the callable.
RECURSIVE RunChainOutermostFirst(_, _, _, _)
RunChainOutermostFirst(ch, i, r, mode) ==
  IF i > Len(ch) THEN r
  ELSE LET s2 == wrapper(ch[Len(ch) + 1 - i], Len(ch) + 1 - i, r.st, mode)
       IN RunChainOutermostFirst(ch, i + 1,
                                 [st |-> s2, outs |-> Append(r.outs, s2.out)], mode)

\* the nested wrappers called from the outermost one: the callable runs
\* first, then the wrappers innermost (ch[1]) to outermost see its outcome.
\* r is [st, outs]; outs collects the outcome of the callable and of every
\* layer.
RECURSIVE RunChain(_, _, _, _)
RunChain(ch, i, r, mode) ==
  IF i > Len(ch) THEN r
  ELSE LET s2 == wrapper(ch[i], i, r.st, mode)
       IN RunChain(ch, i + 1, [st |-> s2, outs |-> Append(r.outs, s2.out)], mode)

----------------------------------------------------------------------------
\* example(): the factory and the decorators of div_array

DefaultMessage == "Unexpected error, seek help."
TypeErrorMessage == "Type Error ocurred! Please check the data types and try again."
ZeroDivMessage == "Division by 0 is impossible!"

exc_handler == ExceptionHandlerInit(Str(DefaultMessage), Str(DefaultLog))

\* decorator arguments (exceptions, return_message, log_file), NoneV when
\* the argument is omitted
ZeroDivArgs == <<{"ZeroDivisionError"}, Str(ZeroDivMessage), Str(ZeroDivLog)>>
TypeErrorArgs == <<{"TypeError"}, Str(TypeErrorMessage), Str(TypeErrorLog)>>
ExceptionArgs == <<{"Exception"}, NoneV, NoneV>>

\* decorators are applied bottom-up: the one nearest the def is innermost
ExampleChain ==
  << exception_handler_decorator(exc_handler, ZeroDivArgs[1], ZeroDivArgs[2], ZeroDivArgs[3]),
     exception_handler_decorator(exc_handler, TypeErrorArgs[1], TypeErrorArgs[2], TypeErrorArgs[3]),
     exception_handler_decorator(exc_handler, ExceptionArgs[1], ExceptionArgs[2], ExceptionArgs[3]) >>

\* further decorator arguments: an empty message with the default file, and
\* the default message with a file of its own
OSErrorArgs == <<{"OSError"}, Str(""), NoneV>>
ArithTypeArgs == <<{"ArithmeticError", "TypeError"}, NoneV, Str(TypeErrorLog)>>

DecoratorArgs == {ZeroDivArgs, TypeErrorArgs, ExceptionArgs, OSErrorArgs, ArithTypeArgs}

\* arguments div_array is called with
ExampleArgs ==
  { List(<<Num(10, 1), Num(2, 1), Num(2, 1)>>),
    List(<<Str("1"), Num(2, 1)>>),
    List(<<Num(10, 1), Num(0, 1)>>),
    Num(1, 1) }

OtherArgs ==
  { List(<<>>), Str("1") }

\* outcomes of an arbitrary decorated callable
FuncOutcomes ==
  { Return(Str(ZeroDivMessage)),
    Raise(<<"OSError">>), Raise(<<"KeyboardInterrupt">>) }

----------------------------------------------------------------------------
\* State

VARIABLES
  factory,   \* the ExceptionHandler instance
  decl,      \* the decorator arguments as written, innermost first
  chain,     \* the guards they produced around the callable, innermost first
  mode,      \* behaviour of the environment for each log file
  fs,        \* content of each log file
  handles,   \* files open in the process
  call,      \* the last call of the outermost wrapper: callable and input
  repeated,  \* the last call repeated the call before it
  outs,      \* its outcomes: of the callable, then of each layer
  events     \* the file operations it performed, in order

vars == <<factory, decl, chain, mode, fs, handles, call, repeated, outs, events>>

NoCall == [f |-> "none"]

ExampleDecl == <<ZeroDivArgs, TypeErrorArgs, ExceptionArgs>>

\* either nothing is decorated yet, or div_array of example() is defined;
\* the environment decides which log files can be opened and written
Init ==
  /\ factory = exc_handler
  /\ \/ decl = <<>> /\ chain = <<>>
     \/ decl = ExampleDecl /\ chain = ExampleChain
  /\ mode \in [LogFiles -> FileModes]
  /\ fs = [f \in LogFiles |-> PriorContent]
  /\ handles = {}
  /\ call = NoCall
  /\ repeated = FALSE
  /\ outs = <<>>
  /\ events = <<>>

\* @factory.exception_handler_decorator(...) applied on top of the chain,
\* where the callable is defined and before it is called
Decorate(a) ==
  /\ Len(chain) < MaxDepth
  /\ call = NoCall
  /\ chain' = Append(chain, exception_handler_decorator(factory, a[1], a[2], a[3]))
  /\ decl' = Append(decl, a)
  /\ UNCHANGED <<factory, mode, fs, handles, call, repeated, outs, events>>

\* the outermost wrapper called; func_out is what the callable does
Invoke(c, func_out) ==
  /\ Len(chain) >= 1
  /\ LET r == RunChain(chain, 1,
                       [st |-> [out |-> func_out, fs |-> fs, events |-> <<>>,
                                handles |-> handles],
                        outs |-> <<func_out>>], mode)
     IN /\ fs' = r.st.fs
        /\ handles' = r.st.handles
        /\ events' = r.st.events
        /\ outs' = r.outs
  /\ call' = c
  /\ repeated' = (call = c)
  /\ UNCHANGED <<factory, decl, chain, mode>>

\* div_array(num_array) through its decorators
CallDivArray(num_array) ==
  Invoke([f |-> "div_array", arg |-> num_array], div_array(num_array))

\* any other decorated callable, given by its outcome
CallFunc(o) ==
  Invoke([f |-> "func", arg |-> o], o)

Next ==
  \/ \E a \in DecoratorArgs : Decorate(a)
  \/ \E x \in ExampleArgs \cup OtherArgs : CallDivArray(x)
  \/ \E o \in FuncOutcomes : CallFunc(o)

Spec == Init /\ [][Next]_vars

----------------------------------------------------------------------------
\* Observations of the last call

Called == call # NoCall
FuncOut == outs[1]
Result == outs[Len(outs)]
Layers == 1..Len(chain)
\* what layer i's func did, and what layer i's wrapper did
LayerIn(i) == outs[i]
LayerOut(i) == outs[i + 1]
LayerEvents(i) == SelectSeq(events, LAMBDA e : e.layer = i)
LogOf(i) == chain[i].log_file.s
Raised(o) == o.tag = "raise"
Matched(i) == Raised(LayerIn(i)) /\ ExceptMatches(LayerIn(i).exc, chain[i].exceptions)
Writable(i) == mode[LogOf(i)] = "ok"
Mentions(content, t) == \E k \in 1..Len(content) : content[k] = t

----------------------------------------------------------------------------
\* Properties

DivArrayCall(x) == [f |-> "div_array", arg |-> x]
NoErrorArg == List(<<Num(10, 1), Num(2, 1), Num(2, 1)>>)
ZeroDivArg == List(<<Num(10, 1), Num(0, 1)>>)
TypeErrorArg == List(<<Str("1"), Num(2, 1)>>)
ScalarArg == Num(1, 1)

\* C1: when the callable completes without raising, every layer and so the
\* whole chain returns exactly the callable's result, nothing is raised and
\* no file is opened or written; div_array([10, 2, 2]) through the three
\* decorators of the example returns 2.5.
C1_PassThrough ==
  /\ Called /\ ~Raised(FuncOut) =>
       /\ Result = FuncOut
       /\ \A i \in Layers : LayerOut(i) = FuncOut
       /\ events = <<>>
  /\ Called /\ call = DivArrayCall(NoErrorArg) =>
       /\ Result = Return(Num(5, 2))
       /\ events = <<>>

C1_Witness ==
  /\ Called
  /\ chain = ExampleChain
  /\ call = DivArrayCall(NoErrorArg)
  /\ Result = Return(Num(5, 2))

\* C3: a guard whose func raises an exception that none of its classes
\* matches raises that same exception to its caller: no fallback, no other
\* exception, and the guard touches no file.
C3_UnmatchedPropagates ==
  Called =>
    \A i \in Layers :
      Raised(LayerIn(i)) /\ ~ExceptMatches(LayerIn(i).exc, chain[i].exceptions) =>
        /\ LayerOut(i) = LayerIn(i)
        /\ LayerEvents(i) = <<>>

C3_Witness ==
  /\ Called
  /\ Len(chain) = 1
  /\ Raised(FuncOut)
  /\ ~ExceptMatches(FuncOut.exc, chain[1].exceptions)
  /\ Result = FuncOut

\* C6: when a guard has matched an exception and its log file cannot be
\* opened or written, the guard raises the OSError of that failure (raised
\* while the matched exception was being handled) to its caller: it does not
\* return its fallback message and it opens the file once only.
Opens(i) == Len(SelectSeq(events, LAMBDA e : e.layer = i /\ e.op = "open"))

C6_WriteFailurePropagates ==
  Called =>
    \A i \in Layers :
      Matched(i) /\ ~Writable(i) =>
        /\ Raised(LayerOut(i))
        /\ LayerOut(i).exc = <<"OSError">> \o LayerIn(i).exc
        /\ Opens(i) = 1

C6_Witness ==
  /\ Called
  /\ \E i \in Layers :
       /\ Matched(i)
       /\ mode[LogOf(i)] = "openfail"
       /\ Raised(LayerOut(i))
       /\ LayerOut(i).exc[1] = "OSError"

\* C10: when a call is over no log file is open, and during the call every
\* file a guard opened was closed by that guard before any other guard acted
\* and before the guard was left, also when writing the trace failed.
ClosedAfter(k) ==
  \E m \in (k + 1)..Len(events) :
    /\ events[m].op = "close"
    /\ events[m].file = events[k].file
    /\ \A j \in k..m : events[j].layer = events[k].layer

C10_ScopedResource ==
  /\ handles = {}
  /\ \A k \in 1..Len(events) :
       events[k].op = "open" /\ events[k].ok => ClosedAfter(k)

C10_Witness ==
  /\ Called
  /\ handles = {}
  /\ \E k \in 1..Len(events) :
       /\ events[k].op = "write" /\ ~events[k].ok
       /\ k < Len(events)
       /\ events[k + 1].op = "close"
       /\ events[k + 1].layer = events[k].layer

\* Fallback(i): the normal return of guard i's fallback message
Fallback(i) == Return(chain[i].return_message)

\* C2 as stated: whenever a guard's func raises an exception one of its
\* classes matches, the guard returns its fallback message and its log file
\* then holds exactly the trace of that exception.
C2_Original ==
  Called =>
    \A i \in Layers :
      Matched(i) =>
        /\ LayerOut(i) = Fallback(i)
        /\ fs[LogOf(i)] = <<FormatExc(LayerIn(i).exc)>>

\* C2 (amended): whenever a guard's func raises an exception one of its
\* classes matches and the guard's log file can be opened and written, the
\* guard returns its fallback message as a normal result, the exception does
\* not reach its caller, and its log file then holds exactly the trace of
\* that exception: the earlier content is gone, the content is not empty and
\* names the exception's type.  So div_array([10, 0]) and
\* div_array(["1", 2]) of the example return the ZeroDivisionError and the
\* TypeError message.
C2_MatchedHandled ==
  /\ Called =>
       \A i \in Layers :
         Matched(i) /\ Writable(i) =>
           /\ LayerOut(i) = Fallback(i)
           /\ fs[LogOf(i)] = <<FormatExc(LayerIn(i).exc)>>
           /\ fs[LogOf(i)] # <<>> /\ fs[LogOf(i)] # PriorContent
           /\ Mentions(fs[LogOf(i)][1], LayerIn(i).exc[1])
  /\ Called /\ chain = ExampleChain /\ call = DivArrayCall(ZeroDivArg)
       /\ mode[ZeroDivLog] = "ok" =>
         Result = Return(Str(ZeroDivMessage))
  /\ Called /\ chain = ExampleChain /\ call = DivArrayCall(TypeErrorArg)
       /\ mode[TypeErrorLog] = "ok" =>
         /\ Result = Return(Str(TypeErrorMessage))
         /\ Mentions(fs[TypeErrorLog][1], "TypeError")

C2_Witness ==
  /\ Called
  /\ Len(chain) = 1
  /\ Matched(1) /\ Writable(1)
  /\ Result = Fallback(1)
  /\ fs[LogOf(1)] = <<FormatExc(FuncOut.exc)>>

\* the innermost guard one of whose classes matches the exception the
\* callable raised
Claims(i) == Raised(FuncOut) /\ ExceptMatches(FuncOut.exc, chain[i].exceptions)
FirstMatch(i) == Claims(i) /\ \A j \in 1..(i - 1) : ~Claims(j)

\* C4 as stated: when the callable raises, the innermost guard matching the
\* exception returns its fallback, no guard outside it activates, and the
\* chain returns that fallback.
C4_Original ==
  Called =>
    \A i \in Layers :
      FirstMatch(i) =>
        /\ LayerOut(i) = Fallback(i)
        /\ \A j \in (i + 1)..Len(chain) :
             LayerOut(j) = Fallback(i) /\ LayerEvents(j) = <<>>
        /\ Result = Fallback(i)

\* C4 (amended): when the callable raises and the innermost guard matching
\* the exception can open and write its log file, that guard returns its own
\* fallback, every guard outside it sees a normal return and does not
\* activate (no fallback of its own, no file touched), and the chain returns
\* the innermost matching guard's fallback; a division by zero through the
\* example's three decorators returns the ZeroDivisionError message, not the
\* generic one.
C4_FirstMatchWins ==
  /\ Called =>
       \A i \in Layers :
         FirstMatch(i) /\ Writable(i) =>
           /\ LayerOut(i) = Fallback(i)
           /\ \A j \in 1..(i - 1) : LayerOut(j) = FuncOut /\ LayerEvents(j) = <<>>
           /\ \A j \in (i + 1)..Len(chain) :
                LayerOut(j) = Fallback(i) /\ LayerEvents(j) = <<>>
           /\ Result = Fallback(i)
  /\ Called /\ chain = ExampleChain /\ call = DivArrayCall(ZeroDivArg)
       /\ mode[ZeroDivLog] = "ok" =>
         /\ Result = Return(Str(ZeroDivMessage))
         /\ Result # Return(Str(DefaultMessage))
         /\ LayerEvents(2) = <<>> /\ LayerEvents(3) = <<>>

C4_Witness ==
  /\ Called
  /\ \E i \in Layers :
       /\ FirstMatch(i) /\ Writable(i)
       /\ \E j \in (i + 1)..Len(chain) :
            ExceptMatches(FuncOut.exc, chain[j].exceptions)
       /\ chain[i + 1].return_message # chain[i].return_message
       /\ Result = Fallback(i)

\* the three outcomes of a call of the outermost guard
Succeeded == ~Raised(FuncOut) /\ Result = FuncOut
Handled == Raised(FuncOut) /\ \E i \in Layers : Matched(i) /\ Result = Fallback(i)
Propagated == Raised(Result)

ExactlyOneOutcome ==
  /\ Succeeded \/ Handled \/ Propagated
  /\ ~(Succeeded /\ Handled) /\ ~(Succeeded /\ Propagated) /\ ~(Handled /\ Propagated)

\* C5 as stated: a call ends as SUCCEEDED, HANDLED or PROPAGATED, and the
\* only exception the caller ever observes is the one the callable raised,
\* when no layer matches it.
C5_Original ==
  Called =>
    /\ ExactlyOneOutcome
    /\ Propagated =>
         /\ Result = FuncOut
         /\ \A i \in Layers : ~Claims(i)

\* PROPAGATED with the callable's own exception, which no layer matched
OriginalSurfaces == Result = FuncOut /\ \A i \in Layers : ~Claims(i)

\* PROPAGATED with the OSError of a failed log write in a layer that had
\* matched, which no layer outside that one matched
WriteErrorSurfaces ==
  \E i \in Layers :
    /\ Matched(i) /\ ~Writable(i)
    /\ Result = Raise(<<"OSError">> \o LayerIn(i).exc)
    /\ \A j \in (i + 1)..Len(chain) :
         ~ExceptMatches(Result.exc, chain[j].exceptions)

\* C5 (amended): every call of the outermost guard ends in exactly one of
\* SUCCEEDED (the callable's own result), HANDLED (the fallback message of a
\* guard of the chain) or PROPAGATED; the exception the caller observes is
\* either exactly the one the callable raised, and then no layer matches it,
\* or the error of a failed log write in a layer that had matched, which no
\* layer further out matched.
C5_Outcomes ==
  Called =>
    /\ ExactlyOneOutcome
    /\ Propagated => OriginalSurfaces \/ WriteErrorSurfaces

C5_Witness ==
  /\ Called
  /\ Len(chain) >= 2
  /\ Propagated
  /\ OriginalSurfaces

\* C7 as stated: div_array(1) through the example's decorators returns the
\* generic message of the outermost guard.
C7_Original ==
  Called /\ chain = ExampleChain /\ call = DivArrayCall(ScalarArg) =>
    Result = Return(Str(DefaultMessage))

\* C7 (amended): div_array(1) raises TypeError (reduce needs an iterable), so
\* through the example's decorators, when typeerror.txt can be written, the
\* TypeError guard in the middle handles it: the call returns the TypeError
\* message, the trace goes to typeerror.txt and the outermost guard does not
\* act.
C7_ScalarIsTypeError ==
  Called /\ chain = ExampleChain /\ call = DivArrayCall(ScalarArg)
    /\ mode[TypeErrorLog] = "ok" =>
      /\ FuncOut = Raise(<<"TypeError">>)
      /\ Result = Return(Str(TypeErrorMessage))
      /\ fs[TypeErrorLog] = <<FormatExc(<<"TypeError">>)>>
      /\ LayerEvents(3) = <<>>

C7_Witness ==
  /\ Called /\ chain = ExampleChain /\ call = DivArrayCall(ScalarArg)
  /\ mode[TypeErrorLog] = "ok"
  /\ Result = Return(Str(TypeErrorMessage))

\* C8: a call that repeats the call before it (same callable, same input,
\* same environment) has the same outcome at every layer and leaves every
\* log file as the first call left it; the file of a guard that handled the
\* exception holds the trace of one exception, not two.
C8_Idempotent ==
  [][ call # NoCall /\ call' = call =>
        /\ outs' = outs
        /\ fs' = fs
        /\ \A i \in Layers :
             Matched(i) /\ ~Raised(LayerOut(i)) =>
               /\ Len(fs'[LogOf(i)]) = 1
               /\ fs'[LogOf(i)] = <<FormatExc(LayerIn(i).exc)>> ]_vars

C8_Witness ==
  /\ Called /\ repeated
  /\ \E i \in Layers :
       /\ Matched(i) /\ ~Raised(LayerOut(i))
       /\ fs[LogOf(i)] = <<FormatExc(LayerIn(i).exc)>>

\* C9: every guard uses, for the message and for the log file separately,
\* the factory's value when the argument was omitted and the argument's
\* value when it was given, the empty text included; producing a guard
\* changes neither the factory nor the guards produced before.
Resolved(given, default) == IF given = NoneV THEN default ELSE given

C9_GuardConfig ==
  \A i \in 1..Len(chain) :
    /\ chain[i].exceptions = decl[i][1]
    /\ chain[i].return_message = Resolved(decl[i][2], exc_handler.return_message)
    /\ chain[i].log_file = Resolved(decl[i][3], exc_handler.log_file)

C9_Resolution ==
  /\ []C9_GuardConfig
  /\ [][ /\ factory' = factory
         /\ \A i \in 1..Len(chain) : chain'[i] = chain[i] ]_vars

C9_Witness ==
  \E i, j \in 1..Len(chain) :
    /\ decl[i][2] = Str("") /\ decl[i][3] = NoneV
    /\ chain[i].return_message = Str("") /\ chain[i].log_file = Str(DefaultLog)
    /\ decl[j][2] = NoneV /\ decl[j][3] # NoneV
    /\ chain[j].return_message = Str(DefaultMessage) /\ chain[j].log_file = decl[j][3]

====
